---------------------------- MODULE Spec2Model ----------------------------
(***************************************************************************)
(* Model of seisflows/scripts/seisflows.py: the command line entry point   *)
(* of SeisFlows (submit, resume, debug, clean, restart), its parameter     *)
(* sanitizer parse_null, the path resolution of setup, and the per-role    *)
(* checkpoint records that resume and debug load into sys.modules.         *)
(*                                                                         *)
(* Strings whose characters matter (names matched by glob, paths, the      *)
(* LINESEARCH value) are sequences of one-character strings.               *)
(***************************************************************************)
EXTENDS Integers, Sequences, FiniteSets, TLC

VARIABLES
    pc,            \* position of the command line process
    run,           \* args.run, the positional argument
    op,            \* the lifecycle function being executed
    paramFile,     \* args.parameter_file
    disk,          \* names of the entries of the run directory (the workdir)
    disk0,         \* the entries of the run directory when the process started
    ckpt,          \* role -> checkpoint record output/seisflows_<role>.p
    wRound,        \* checkpoint round the previous run was writing
    wIdx,          \* number of roles that round has saved so far
    damaged,       \* number of checkpoint records deleted or corrupted by hand
    registry,      \* sys.modules: role -> instance held by seisflows_<role>
    parameters,    \* local variable `parameters` of setup
    parsed,        \* outcome of the parse_null call
    reparsed,      \* outcome of parse_null called on the mapping it returned
    given,         \* the mapping handed to parse_null, as it was before the call
    paths,         \* local variable `paths` of setup and submit
    existing,      \* absolute paths outside the workdir found on disk by submit
    pathsChecked,  \* submit has run its existence check
    missingPaths,  \* local variable `paths_dont_exist` of submit
    idx,           \* position of the `for name in names` loops
    checked,       \* roles whose check() has been called and has returned
    prompts,       \* prompts shown to the user and the answers typed, in order
    mkdirDone,     \* unix.mkdir(args.workdir) has been called
    configCalled,  \* config() has been called
    driverInvoked, \* system.submit(workflow) has been called
    exitStatus,    \* exit status of the process, -1 while it runs
    error          \* the exception or exit that ended the process

vars == <<pc, run, op, paramFile, disk, disk0, ckpt, wRound, wIdx, damaged,
          registry, parameters, parsed, reparsed, given, paths, existing,
          pathsChecked,
          missingPaths, idx, checked, prompts, mkdirDone, configCalled,
          driverInvoked, exitStatus, error>>

-----------------------------------------------------------------------------
(* Bounds of the model *)

\* checkpoint rounds the previous run may start
MaxRound == 2
\* checkpoint records a user may delete or corrupt before the process starts
MaxDamaged == 1

-----------------------------------------------------------------------------
(* Strings *)

Lowers == <<"a", "b", "c", "k", "r", "t">>
Uppers == <<"A", "B", "C", "K", "R", "T">>

\* str.upper and str.lower on one character
UpperChar(c) ==
    IF \E i \in 1..Len(Lowers) : Lowers[i] = c
    THEN Uppers[CHOOSE i \in 1..Len(Lowers) : Lowers[i] = c]
    ELSE c

LowerChar(c) ==
    IF \E i \in 1..Len(Uppers) : Uppers[i] = c
    THEN Lowers[CHOOSE i \in 1..Len(Uppers) : Uppers[i] = c]
    ELSE c

\* str.swapcase in place of str.capitalize
CapitalizeSwapcase(s) ==
    [i \in 1..Len(s) |->
        IF UpperChar(s[i]) = s[i] THEN LowerChar(s[i]) ELSE UpperChar(s[i])]

\* the first character upper-cased, the rest left as it is
CapitalizeUpperFirstOnly(s) ==
    [i \in 1..Len(s) |-> IF i = 1 THEN UpperChar(s[i]) ELSE s[i]]

\* str.capitalize: first character upper-cased, the rest lower-cased
Capitalize(s) ==
    [i \in 1..Len(s) |-> IF i = 1 THEN UpperChar(s[i]) ELSE LowerChar(s[i])]

\* s.startswith(pre)
StartsWith(s, pre) ==
    /\ Len(pre) <= Len(s)
    /\ SubSeq(s, 1, Len(pre)) = pre

\* sub in s
Contains(s, sub) ==
    \E i \in 1..(Len(s) - Len(sub) + 1) : SubSeq(s, i, i + Len(sub) - 1) = sub


-----------------------------------------------------------------------------
(* Python values of the parameter file.  Every value is a record with the  *)
(* same fields: t is the Python type, s the characters of a str, n the     *)
(* number of an int or bool.                                               *)

PyNone == [t |-> "NoneType", s |-> <<>>, n |-> 0]
PyStr(chars) == [t |-> "str", s |-> chars, n |-> 0]
PyInt(k) == [t |-> "int", s |-> <<>>, n |-> k]
PyBool(k) == [t |-> "bool", s |-> <<>>, n |-> k]
\* the nested mapping of the PATHS key; its entries are held in PathCases
DictValue == [t |-> "dict", s |-> <<>>, n |-> 1]

\* `not item`: None, "", 0 and False are falsy
Falsy(item) ==
    \/ item.t = "NoneType"
    \/ item.t = "str" /\ item.s = <<>>
    \/ item.t \in {"int", "bool"} /\ item.n = 0

\* `not item and isinstance(item, (type(None), str))`
IsNull(item) == Falsy(item) /\ item.t \in {"NoneType", "str"}

\* item.capitalize() exists on str only: any other type raises AttributeError
CapitalizeRaises(par) ==
    /\ "LINESEARCH" \in DOMAIN par
    /\ ~IsNull(par["LINESEARCH"])
    /\ par["LINESEARCH"].t # "str"

\* parse_null on a mapping on which the loop does not raise
Sanitized(par) ==
    [key \in {k \in DOMAIN par : ~IsNull(par[k])} |->
        IF key = "LINESEARCH"
        THEN PyStr(Capitalize(par[key].s))
        ELSE par[key]]

\* parse_null: the mapping returned, or the exception raised
parse_null(par) ==
    IF CapitalizeRaises(par)
    THEN [raised |-> "AttributeError", value |-> <<>>]
    ELSE [raised |-> "", value |-> Sanitized(par)]

\* One iteration of the loop of parse_null on the two dictionaries it holds,
\* with parsed_parameters made the same object as parameters.
LoopStepAliased(objects, key) ==
    LET item == objects.parameters[key]
        deleted == [k \in DOMAIN objects.parsed_parameters \ {key} |->
                      objects.parsed_parameters[k]]
        assigned == [objects.parsed_parameters EXCEPT
                       ![key] = PyStr(Capitalize(item.s))]
    IN IF IsNull(item)
       THEN [parameters |-> deleted, parsed_parameters |-> deleted]
       ELSE IF key = "LINESEARCH" /\ item.t = "str"
            THEN [parameters |-> assigned, parsed_parameters |-> assigned]
            ELSE objects

\* One iteration of the loop of lines 62-67 on the two dictionaries it holds:
\* the argument `parameters` and its copy `parsed_parameters`.  The deletion
\* and the assignment go to the copy.
LoopStep(objects, key) ==
    LET item == objects.parameters[key]
    IN IF IsNull(item)
       THEN [objects EXCEPT
               !.parsed_parameters =
                   [k \in DOMAIN objects.parsed_parameters \ {key} |->
                      objects.parsed_parameters[k]]]
       ELSE IF key = "LINESEARCH" /\ item.t = "str"
            THEN [objects EXCEPT
                    !.parsed_parameters[key] = PyStr(Capitalize(item.s))]
            ELSE objects

RECURSIVE ParseNullLoop(_, _)
\* the loop of lines 62-67 over the keys the argument had at the call
ParseNullLoop(objects, keys) ==
    IF keys = {}
    THEN objects
    ELSE LET key == CHOOSE k \in keys : TRUE
         IN ParseNullLoop(LoopStep(objects, key), keys \ {key})

\* the argument of parse_null after the call: line 61 copies it
ArgumentAfter(par) ==
    ParseNullLoop([parameters |-> par, parsed_parameters |-> par],
                  DOMAIN par).parameters

\* no parse_null call has been made
NotCalled == [raised |-> "not called", value |-> <<>>]

-----------------------------------------------------------------------------
(* Paths *)

\* os.getcwd(), which is args.workdir by default
CWD == <<"/", "w">>
\* os.getenv("HOME")
HOME == <<"/", "h">>

\* tilde_expand on one value: ~/x becomes $HOME/x, anything else is kept
TildeExpandOne(val) ==
    IF StartsWith(val, <<"~", "/">>)
    THEN HOME \o <<"/">> \o SubSeq(val, 3, Len(val))
    ELSE val

\* tilde_expand on the PATHS mapping
tilde_expand(mydict) == [key \in DOMAIN mydict |-> TildeExpandOne(mydict[key])]

\* os.path.normpath on the paths of the model: drops a trailing separator
Normpath(path) ==
    IF Len(path) > 1 /\ path[Len(path)] = "/"
    THEN SubSeq(path, 1, Len(path) - 1)
    ELSE path

\* os.path.abspath: join(os.getcwd(), path) unless path is absolute, normalised
abspath(path) ==
    IF StartsWith(path, <<"/">>)
    THEN Normpath(path)
    ELSE Normpath(CWD \o <<"/">> \o path)

\* {key: os.path.abspath(path) for key, path in paths.items()}
ResolvePaths(raw) ==
    LET expanded == tilde_expand(raw)
    IN [key \in DOMAIN expanded |-> abspath(expanded[key])]

IsAbsolute(path) == StartsWith(path, <<"/">>)

-----------------------------------------------------------------------------
(* Roles, checkpoint records and registry instances *)

\* seisflows.config.names: the enumerated roles, in loading order
names == <<"parameters", "paths", "system", "preprocess", "solver",
           "postprocess", "optimize", "workflow">>

Roles == {names[i] : i \in 1..Len(names)}

\* the roles config() constructs; parameters and paths are registered by setup
ModuleRoles == Roles \ {"parameters", "paths"}

\* output/seisflows_<role>.p
MissingRecord == [state |-> "missing", role |-> "", round |-> 0]
CorruptRecord == [state |-> "corrupt", role |-> "", round |-> 0]
SavedRecord(role, round) == [state |-> "saved", role |-> role, round |-> round]

\* value of sys.modules["seisflows_<role>"]
NotSet == [src |-> "unset", role |-> "", round |-> 0]
FromFile(role) == [src |-> "parameter file", role |-> role, round |-> 0]
FromConfig(role) == [src |-> "config", role |-> role, round |-> 0]
FromCheckpoint(record) ==
    [src |-> "checkpoint", role |-> record.role, round |-> record.round]

\* tools.loadobj(fullfile): the exception it raises, "" when it returns
LoadobjRaises(record) ==
    CASE record.state = "missing" -> "CheckpointMissing"
      [] record.state = "corrupt" -> "CheckpointCorrupt"
      [] OTHER -> ""

-----------------------------------------------------------------------------
(* The run directory *)

OUTPUT_DIR == <<"o", "u", "t", "p", "u", "t">>
SCRATCH_DIR == <<"s", "c", "r", "a", "t", "c", "h">>
MYLOG_TXT == <<"m", "y", "l", "o", "g", ".", "t", "x", "t">>
PARAMETERS_YAML ==
    <<"p", "a", "r", "a", "m", "e", "t", "e", "r", "s", ".", "y", "a", "m", "l">>
CATALOG_YAML == <<"c", "a", "t", "a", "l", "o", "g", ".", "y", "a", "m", "l">>

\* entries a run directory may hold before any run has written to it
InitialEntries == {SCRATCH_DIR, MYLOG_TXT, PARAMETERS_YAML, CATALOG_YAML}

\* values of -p/--parameter_file
ParameterFileNames == {PARAMETERS_YAML, CATALOG_YAML}

\* glob does not match a leading dot with a wildcard
Hidden(name) == Len(name) > 0 /\ name[1] = "."

\* glob(os.path.join(workdir, "output*"))
GlobOutput(entries) ==
    {name \in entries : ~Hidden(name) /\ StartsWith(name, OUTPUT_DIR)}

\* glob(os.path.join(workdir, "*log*"))
GlobLog(entries) ==
    {name \in entries : ~Hidden(name) /\ Contains(name, <<"l", "o", "g">>)}

\* the entries the three removals of clean delete
CleanRemoves(entries) ==
    GlobOutput(entries) \cup GlobLog(entries) \cup (entries \cap {SCRATCH_DIR})

\* os.path.exists for an absolute path: the workdir, one of its entries, or a
\* path outside it that is on disk
PathExists(path, entries, found) ==
    \/ path = CWD
    \/ path \in found
    \/ \E name \in entries : path = CWD \o <<"/">> \o name

-----------------------------------------------------------------------------
(* Parameter files *)

\* the keys precheck_parameters prints
PrecheckKeys == {"TITLE", "WORKFLOW", "BEGIN", "END", "RESUME_FROM",
                 "STOP_AFTER", "NTASK", "WALLTIME", "CASE", "SMOOTH_H",
                 "SMOOTH_V"}

BACKTRACK == <<"b", "a", "c", "k", "t", "r", "a", "c", "k">>

\* a parameter file that sets every key
FullParameters ==
    [key \in PrecheckKeys \cup {"PATHS", "LINESEARCH"} |->
        CASE key = "PATHS" -> DictValue
          [] key = "LINESEARCH" -> PyStr(BACKTRACK)
          [] key \in {"TITLE", "WORKFLOW", "CASE"} -> PyStr(<<"t">>)
          [] OTHER -> PyInt(1)]

Without(par, key) == [k \in DOMAIN par \ {key} |-> par[k]]

\* order of the keys of the PATHS mapping
PathKeys == <<"OUTPUT", "SCRATCH", "DATA", "MODEL">>

\* the PATHS mappings of the model: OUTPUT and SCRATCH relative to the workdir,
\* DATA unused, under the home directory, relative or absolute, MODEL unused or
\* absolute
PathCases ==
    {[key \in {PathKeys[i] : i \in 1..Len(PathKeys)} |->
        CASE key = "OUTPUT" -> OUTPUT_DIR
          [] key = "SCRATCH" -> SCRATCH_DIR
          [] key = "DATA" -> data
          [] OTHER -> model] :
     data \in {<<>>, <<"~", "/", "d">>, <<"d">>, <<"/", "d">>},
     model \in {<<>>, <<"/", "m">>}}

\* what loadyaml may return: the mapping and the entries of its PATHS key
ParameterFiles ==
    {[par |-> FullParameters, PATHS |-> p] : p \in PathCases}
    \cup {[par |-> Without(FullParameters, key), PATHS |-> <<>>] :
            key \in {"TITLE", "SMOOTH_V", "PATHS"}}
    \cup {[par |-> [FullParameters EXCEPT !["PATHS"] = PyNone], PATHS |-> <<>>],
          [par |-> [FullParameters EXCEPT !["LINESEARCH"] = PyInt(0)],
           PATHS |-> CHOOSE p \in PathCases : p["DATA"] = <<>> /\ p["MODEL"] = <<>>]}

NoParameters == [par |-> <<>>, PATHS |-> <<>>]

-----------------------------------------------------------------------------
(* Initial state: a run directory before the command is started *)

Init ==
    /\ pc = "idle"
    /\ run = ""
    /\ op = ""
    /\ paramFile = <<>>
    /\ disk \in SUBSET InitialEntries
    /\ disk0 = {}
    /\ ckpt = [role \in Roles |-> MissingRecord]
    /\ wRound = 0
    /\ wIdx = Len(names)
    /\ damaged = 0
    /\ registry = [role \in Roles |-> NotSet]
    /\ parameters = NoParameters
    /\ parsed = NotCalled
    /\ reparsed = NotCalled
    /\ given = <<>>
    /\ paths = <<>>
    /\ existing = {}
    /\ pathsChecked = FALSE
    /\ missingPaths = <<>>
    /\ idx = 0
    /\ checked = {}
    /\ prompts = <<>>
    /\ mkdirDone = FALSE
    /\ configCalled = FALSE
    /\ driverInvoked = FALSE
    /\ exitStatus = -1
    /\ error = ""

envVars == <<disk, ckpt, wRound, wIdx, damaged>>
argVars == <<run, paramFile, disk0>>
setupVars == <<parameters, parsed, paths>>
sanitizeVars == <<reparsed, given>>
submitVars == <<existing, pathsChecked, missingPaths>>
effectVars == <<mkdirDone, configCalled, driverInvoked>>

-----------------------------------------------------------------------------
(* The previous run and the user, before the command is started *)

\* One per-role save of a checkpoint round of the previous run: the record of
\* the next role of names is overwritten with its state of the current round.
CheckpointSave ==
    /\ pc = "idle"
    /\ damaged = 0
    /\ IF wIdx = Len(names)
       THEN /\ wRound < MaxRound
            /\ wRound' = wRound + 1
            /\ wIdx' = 1
            /\ ckpt' = [ckpt EXCEPT ![names[1]] = SavedRecord(names[1], wRound + 1)]
       ELSE /\ wRound' = wRound
            /\ wIdx' = wIdx + 1
            /\ ckpt' = [ckpt EXCEPT
                          ![names[wIdx + 1]] = SavedRecord(names[wIdx + 1], wRound)]
    /\ disk' = disk \cup {OUTPUT_DIR}
    /\ UNCHANGED <<pc, op, damaged, registry, idx, prompts, exitStatus, error>>
    /\ UNCHANGED <<argVars, setupVars, submitVars, effectVars,
                   sanitizeVars, checked>>

\* After the previous run has ended with its round complete, a record of the
\* output directory is deleted or overwritten with bytes that do not load.
DamageRecord(role, record) ==
    /\ pc = "idle"
    /\ damaged < MaxDamaged
    /\ wRound > 0
    /\ wIdx = Len(names)
    /\ ckpt[role].state = "saved"
    /\ ckpt' = [ckpt EXCEPT ![role] = record]
    /\ damaged' = damaged + 1
    /\ UNCHANGED <<pc, op, disk, wRound, wIdx, registry, idx, prompts,
                   exitStatus, error>>
    /\ UNCHANGED <<argVars, setupVars, submitVars, effectVars,
                   sanitizeVars, checked>>

-----------------------------------------------------------------------------
(* The process *)

\* the process ends: an uncaught exception, sys.exit or the return of main
Exit(status, why) ==
    /\ pc' = "done"
    /\ exitStatus' = status
    /\ error' = why

\* The command is started: the previous run is over, whether it ended between
\* two saves or not, and get_args reads the command line.
Launch(r, pf) ==
    /\ pc = "idle"
    /\ pc' = "main"
    /\ run' = r
    /\ paramFile' = pf
    /\ disk0' = disk
    /\ UNCHANGED <<op, registry, idx, prompts, exitStatus, error>>
    /\ UNCHANGED <<envVars, setupVars, submitVars, effectVars,
                   sanitizeVars, checked>>

\* Main with `check` dispatched like submit
MainCheckSubmits ==
    /\ pc = "main"
    /\ CASE run \in {"submit", "resume", "debug", "check"} ->
                /\ pc' = "setup"
                /\ op' = IF run = "check" THEN "submit" ELSE run
                /\ UNCHANGED <<exitStatus, error>>
         [] run \in {"clean", "restart"} ->
                /\ pc' = "clean"
                /\ op' = "clean"
                /\ UNCHANGED <<exitStatus, error>>
         [] OTHER ->
                /\ Exit(0, "")
                /\ op' = op
    /\ UNCHANGED <<registry, idx, prompts>>
    /\ UNCHANGED <<envVars, argVars, setupVars, submitVars, effectVars,
                   sanitizeVars, checked>>

\* main: the dispatch on args.run
Main ==
    /\ pc = "main"
    /\ CASE run \in {"submit", "resume", "debug"} ->
                /\ pc' = "setup"
                /\ op' = run
                /\ UNCHANGED <<exitStatus, error>>
         [] run \in {"clean", "restart"} ->
                /\ pc' = "clean"
                /\ op' = "clean"
                /\ UNCHANGED <<exitStatus, error>>
         [] OTHER ->
                /\ Exit(0, "")
                /\ op' = op
    /\ UNCHANGED <<registry, idx, prompts>>
    /\ UNCHANGED <<envVars, argVars, setupVars, submitVars, effectVars,
                   sanitizeVars, checked>>

\* clean(workdir): the prompt and, on "y", the three removals; restart goes on
\* to submit whatever the answer was
Clean(answer) ==
    /\ pc = "clean"
    /\ prompts' = Append(prompts, [prompt |-> "clean", answer |-> answer])
    /\ IF answer = "y"
       THEN /\ disk' = disk \ CleanRemoves(disk)
            /\ ckpt' = IF OUTPUT_DIR \in CleanRemoves(disk)
                       THEN [role \in Roles |-> MissingRecord]
                       ELSE ckpt
       ELSE UNCHANGED <<disk, ckpt>>
    /\ IF run = "restart"
       THEN /\ pc' = "setup"
            /\ op' = "submit"
            /\ UNCHANGED <<exitStatus, error>>
       ELSE /\ Exit(0, "")
            /\ op' = op
    /\ UNCHANGED <<wRound, wIdx, damaged, registry, idx>>
    /\ UNCHANGED <<argVars, setupVars, submitVars, effectVars,
                   sanitizeVars, checked>>

\* setup, lines 77-82: the parameter file must exist
SetupExists ==
    /\ pc = "setup"
    /\ IF paramFile \in disk
       THEN /\ pc' = "setup_load"
            /\ UNCHANGED <<exitStatus, error>>
       ELSE Exit(1, "FileNotFoundError")
    /\ UNCHANGED <<op, registry, idx, prompts>>
    /\ UNCHANGED <<envVars, argVars, setupVars, submitVars, effectVars,
                   sanitizeVars, checked>>

\* SetupLoad calling precheck_parameters whatever `precheck` is
SetupLoadAlwaysPrecheck(file) ==
    /\ pc = "setup_load"
    /\ parameters' = file
    /\ pc' = "precheck"
    /\ UNCHANGED <<op, registry, idx, prompts, exitStatus, error, parsed, paths>>
    /\ UNCHANGED <<envVars, argVars, submitVars, effectVars,
                   sanitizeVars, checked>>

\* setup, line 85: loadyaml returns the mapping of the parameter file
SetupLoad(file) ==
    /\ pc = "setup_load"
    /\ parameters' = file
    /\ pc' = IF op = "debug" THEN "setup_parse" ELSE "precheck"
    /\ UNCHANGED <<op, registry, idx, prompts, exitStatus, error, parsed, paths>>
    /\ UNCHANGED <<envVars, argVars, submitVars, effectVars,
                   sanitizeVars, checked>>

\* precheck_parameters: the summary reads its keys, then the prompt
Precheck(answer) ==
    /\ pc = "precheck"
    /\ IF ~(PrecheckKeys \subseteq DOMAIN parameters.par)
       THEN /\ Exit(1, "KeyError")
            /\ UNCHANGED prompts
       ELSE /\ prompts' = Append(prompts,
                                  [prompt |-> "precheck", answer |-> answer])
            /\ IF answer = "y"
               THEN /\ pc' = "setup_parse"
                    /\ UNCHANGED <<exitStatus, error>>
               ELSE Exit(255, "sys.exit(-1)")
    /\ UNCHANGED <<op, registry, idx>>
    /\ UNCHANGED <<envVars, argVars, setupVars, submitVars, effectVars,
                   sanitizeVars, checked>>

\* SetupParse without the registration of seisflows_parameters
SetupParseNoRegister ==
    /\ pc = "setup_parse"
    /\ parsed' = parse_null(parameters.par)
    /\ IF parsed'.raised # ""
       THEN /\ Exit(1, parsed'.raised)
            /\ UNCHANGED <<registry, parameters>>
       ELSE /\ parameters' = [parameters EXCEPT !.par = parsed'.value]
            /\ UNCHANGED registry
            /\ pc' = "setup_paths"
            /\ UNCHANGED <<exitStatus, error>>
    /\ UNCHANGED <<op, idx, prompts, paths>>
    /\ UNCHANGED <<envVars, argVars, submitVars, effectVars,
                   sanitizeVars, checked>>

\* setup, lines 88-89: parse_null, then seisflows_parameters is registered
SetupParse ==
    /\ pc = "setup_parse"
    /\ parsed' = parse_null(parameters.par)
    /\ IF parsed'.raised # ""
       THEN /\ Exit(1, parsed'.raised)
            /\ UNCHANGED <<registry, parameters>>
       ELSE /\ parameters' = [parameters EXCEPT !.par = parsed'.value]
            /\ registry' = [registry EXCEPT
                              !["parameters"] = FromFile("parameters")]
            /\ pc' = "setup_paths"
            /\ UNCHANGED <<exitStatus, error>>
    /\ UNCHANGED <<op, idx, prompts, paths>>
    /\ UNCHANGED <<envVars, argVars, submitVars, effectVars,
                   sanitizeVars, checked>>

\* setup, lines 92-94: the PATHS entries are expanded and made absolute, then
\* seisflows_paths is registered
SetupPaths ==
    /\ pc = "setup_paths"
    /\ IF "PATHS" \notin DOMAIN parameters.par
       THEN /\ Exit(1, "KeyError")
            /\ UNCHANGED <<registry, paths>>
       ELSE /\ paths' = ResolvePaths(parameters.PATHS)
            /\ registry' = [registry EXCEPT !["paths"] = FromFile("paths")]
            /\ pc' = "setup_return"
            /\ UNCHANGED <<exitStatus, error>>
    /\ UNCHANGED <<op, idx, prompts, parameters, parsed>>
    /\ UNCHANGED <<envVars, argVars, submitVars, effectVars,
                   sanitizeVars, checked>>

\* setup, line 96: the return to submit, resume or debug.  submit reads only
\* `paths` of the returned values; resume and debug read none of them.
SetupReturn ==
    /\ pc = "setup_return"
    /\ pc' = IF op = "submit" THEN "submit_check" ELSE "load"
    /\ idx' = IF op = "submit" THEN 0 ELSE 1
    /\ parameters' = NoParameters
    /\ parsed' = NotCalled
    /\ paths' = IF op = "submit" THEN paths ELSE <<>>
    /\ UNCHANGED <<op, registry, prompts, exitStatus, error>>
    /\ UNCHANGED <<envVars, argVars, submitVars, effectVars,
                   sanitizeVars, checked>>

\* the resolved paths that lie outside the workdir
ExternalPaths(resolved) ==
    {resolved[key] : key \in DOMAIN resolved} \ ({CWD} \cup
        {path \in {resolved[key] : key \in DOMAIN resolved} :
            StartsWith(path, CWD \o <<"/">>)})

\* PathsDontExist without the exemption of OUTPUT and SCRATCH
PathsDontExistNoExemption(resolved, entries, found) ==
    LET Reported(key) ==
            /\ key \in DOMAIN resolved
            /\ resolved[key] # <<>>
            /\ ~PathExists(resolved[key], entries, found)
        keys == SelectSeq(PathKeys, Reported)
    IN [i \in 1..Len(keys) |-> resolved[keys[i]]]

\* PathsDontExist with DATA wrongly added to the exempted keys
PathsDontExistExemptData(resolved, entries, found) ==
    LET Reported(key) ==
            /\ key \in DOMAIN resolved
            /\ ~((key \in {"OUTPUT", "SCRATCH", "DATA"}) \/ (resolved[key] = <<>>))
            /\ ~PathExists(resolved[key], entries, found)
        keys == SelectSeq(PathKeys, Reported)
    IN [i \in 1..Len(keys) |-> resolved[keys[i]]]

\* submit, lines 130-135: the list paths_dont_exist
PathsDontExist(resolved, entries, found) ==
    LET Reported(key) ==
            /\ key \in DOMAIN resolved
            /\ ~((key \in {"OUTPUT", "SCRATCH"}) \/ (resolved[key] = <<>>))
            /\ ~PathExists(resolved[key], entries, found)
        keys == SelectSeq(PathKeys, Reported)
    IN [i \in 1..Len(keys) |-> resolved[keys[i]]]

\* submit, lines 129-141: the existence check of the configured paths
SubmitCheckPaths(found) ==
    /\ pc = "submit_check"
    /\ existing' = found
    /\ pathsChecked' = TRUE
    /\ missingPaths' = PathsDontExist(paths, disk, found)
    /\ IF missingPaths' # <<>>
       THEN Exit(0, "sys.exit()")
       ELSE /\ pc' = "submit_mkdir"
            /\ UNCHANGED <<exitStatus, error>>
    /\ UNCHANGED <<op, registry, idx, prompts>>
    /\ UNCHANGED <<envVars, argVars, setupVars, effectVars,
                   sanitizeVars, checked>>

\* submit, lines 144-146: seisflows_paths is registered again, the workdir is
\* made and entered
SubmitMkdir ==
    /\ pc = "submit_mkdir"
    /\ registry' = [registry EXCEPT !["paths"] = FromFile("paths")]
    /\ mkdirDone' = TRUE
    /\ pc' = "submit_config"
    /\ UNCHANGED <<op, idx, prompts, exitStatus, error, configCalled,
                   driverInvoked>>
    /\ UNCHANGED <<envVars, argVars, setupVars, submitVars,
                   sanitizeVars, checked>>

\* submit, line 149: config() instantiates every module and checks its
\* parameters
SubmitConfig(ok) ==
    /\ pc = "submit_config"
    /\ configCalled' = TRUE
    /\ IF ok
       THEN /\ registry' = [role \in Roles |->
                              IF role \in ModuleRoles
                              THEN FromConfig(role)
                              ELSE registry[role]]
            /\ pc' = "submit_driver"
            /\ UNCHANGED <<exitStatus, error>>
       ELSE /\ Exit(1, "ModuleValidationError")
            /\ UNCHANGED registry
    /\ UNCHANGED <<op, idx, prompts, mkdirDone, driverInvoked>>
    /\ UNCHANGED <<envVars, argVars, setupVars, submitVars,
                   sanitizeVars, checked>>

\* lines 150-153 and 175-178: the workflow and system modules are looked up
\* and system.submit(workflow) is called
InvokeDriver ==
    /\ IF registry["workflow"] = NotSet \/ registry["system"] = NotSet
       THEN /\ Exit(1, "KeyError")
            /\ UNCHANGED driverInvoked
       ELSE /\ driverInvoked' = TRUE
            /\ Exit(0, "")
    /\ UNCHANGED <<op, registry, idx, prompts, mkdirDone, configCalled>>
    /\ UNCHANGED <<envVars, argVars, setupVars, submitVars,
                   sanitizeVars, checked>>

SubmitDriver ==
    /\ pc = "submit_driver"
    /\ InvokeDriver

\* LoadRecord reading the file of the first role for every role
LoadRecordWrongFile ==
    /\ pc = "load"
    /\ LET name == names[idx]
           raises == LoadobjRaises(ckpt[names[1]])
       IN IF raises # ""
          THEN /\ Exit(1, raises)
               /\ UNCHANGED <<registry, idx>>
          ELSE /\ registry' = [registry EXCEPT ![name] = FromCheckpoint(ckpt[names[1]])]
               /\ idx' = IF idx = Len(names) THEN 1 ELSE idx + 1
               /\ pc' = IF idx = Len(names) THEN "check" ELSE "load"
               /\ UNCHANGED <<exitStatus, error>>
    /\ UNCHANGED <<op, prompts>>
    /\ UNCHANGED <<envVars, argVars, setupVars, submitVars, effectVars,
                   sanitizeVars, checked>>

\* lines 167-169 and 193-195, one iteration: the record of names[idx] is
\* loaded and set in sys.modules
LoadRecord ==
    /\ pc = "load"
    /\ LET name == names[idx]
           raises == LoadobjRaises(ckpt[name])
       IN IF raises # ""
          THEN /\ Exit(1, raises)
               /\ UNCHANGED <<registry, idx>>
          ELSE /\ registry' = [registry EXCEPT ![name] = FromCheckpoint(ckpt[name])]
               /\ idx' = IF idx = Len(names) THEN 1 ELSE idx + 1
               /\ pc' = IF idx = Len(names) THEN "check" ELSE "load"
               /\ UNCHANGED <<exitStatus, error>>
    /\ UNCHANGED <<op, prompts>>
    /\ UNCHANGED <<envVars, argVars, setupVars, submitVars, effectVars,
                   sanitizeVars, checked>>

\* CheckModule going on to the next role when check() fails
CheckModuleIgnoresFailure(ok) ==
    /\ pc = "check"
    /\ checked' = IF ok THEN checked \cup {names[idx]} ELSE checked
    /\ idx' = IF idx = Len(names) THEN 0 ELSE idx + 1
    /\ pc' = IF idx < Len(names) THEN "check"
             ELSE IF op = "resume" THEN "resume_driver" ELSE "debug_shell"
    /\ UNCHANGED <<exitStatus, error>>
    /\ UNCHANGED <<op, registry, prompts>>
    /\ UNCHANGED <<envVars, argVars, setupVars, submitVars, effectVars,
                   sanitizeVars>>

\* lines 172-173 and 198-199, one iteration: check() of names[idx]
CheckModule(ok) ==
    /\ pc = "check"
    /\ IF ok
       THEN /\ checked' = checked \cup {names[idx]}
            /\ idx' = IF idx = Len(names) THEN 0 ELSE idx + 1
            /\ pc' = IF idx < Len(names) THEN "check"
                     ELSE IF op = "resume" THEN "resume_driver" ELSE "debug_shell"
            /\ UNCHANGED <<exitStatus, error>>
       ELSE /\ Exit(1, "ModuleValidationError")
            /\ UNCHANGED <<idx, checked>>
    /\ UNCHANGED <<op, registry, prompts>>
    /\ UNCHANGED <<envVars, argVars, setupVars, submitVars, effectVars,
                   sanitizeVars>>

ResumeLoad == op = "resume" /\ LoadRecord
ResumeCheck(ok) == op = "resume" /\ CheckModule(ok)

ResumeDriver ==
    /\ pc = "resume_driver"
    /\ InvokeDriver

DebugLoad == op = "debug" /\ LoadRecord
DebugCheck(ok) == op = "debug" /\ CheckModule(ok)

\* debug, lines 201-218: the modules are bound to local names and the
\* interactive shell is entered
DebugShell ==
    /\ pc = "debug_shell"
    /\ pc' = "shell"
    /\ UNCHANGED <<op, registry, idx, prompts, exitStatus, error>>
    /\ UNCHANGED <<envVars, argVars, setupVars, submitVars, effectVars,
                   sanitizeVars, checked>>

-----------------------------------------------------------------------------

\* values of the positional argument; "" when it is omitted
RunChoices == {"submit", "clean", "resume", "debug", "restart", "check", ""}

\* what the user types at a prompt
Answers == {"y", "n", ""}

Next ==
    \/ CheckpointSave
    \/ \E role \in Roles, record \in {MissingRecord, CorruptRecord} :
          DamageRecord(role, record)
    \/ \E r \in RunChoices, pf \in ParameterFileNames : Launch(r, pf)
    \/ Main
    \/ \E answer \in Answers : Clean(answer)
    \/ SetupExists
    \/ \E file \in ParameterFiles : SetupLoad(file)
    \/ \E answer \in Answers : Precheck(answer)
    \/ SetupParse
    \/ SetupPaths
    \/ SetupReturn
    \/ \E found \in SUBSET ExternalPaths(paths) : SubmitCheckPaths(found)
    \/ SubmitMkdir
    \/ \E ok \in BOOLEAN : SubmitConfig(ok)
    \/ SubmitDriver
    \/ ResumeLoad
    \/ \E ok \in BOOLEAN : ResumeCheck(ok)
    \/ ResumeDriver
    \/ DebugLoad
    \/ \E ok \in BOOLEAN : DebugCheck(ok)
    \/ DebugShell

Spec == Init /\ [][Next]_vars

-----------------------------------------------------------------------------
(* parse_null on its own: the function applied to a mapping, then to the   *)
(* mapping it returned                                                     *)

SanitizeKeys == {"LINESEARCH", "NTASK", "TITLE"}

SanitizeValues ==
    {PyNone, PyStr(<<>>), PyInt(0), PyInt(1), PyBool(0), PyBool(1),
     PyStr(<<"b", "t">>), PyStr(<<"B", "T">>), PyStr(BACKTRACK)}

\* the mappings handed to parse_null
SanitizeInputs ==
    UNION {[keys -> SanitizeValues] : keys \in SUBSET SanitizeKeys}

InitSanitize ==
    /\ pc = "sanitize"
    /\ run = ""
    /\ op = ""
    /\ paramFile = <<>>
    /\ disk = {}
    /\ disk0 = {}
    /\ ckpt = [role \in Roles |-> MissingRecord]
    /\ wRound = 0
    /\ wIdx = Len(names)
    /\ damaged = 0
    /\ registry = [role \in Roles |-> NotSet]
    /\ parameters \in {[par |-> input, PATHS |-> <<>>] : input \in SanitizeInputs}
    /\ parsed = NotCalled
    /\ reparsed = NotCalled
    /\ given = parameters.par
    /\ paths = <<>>
    /\ existing = {}
    /\ pathsChecked = FALSE
    /\ missingPaths = <<>>
    /\ idx = 0
    /\ checked = {}
    /\ prompts = <<>>
    /\ mkdirDone = FALSE
    /\ configCalled = FALSE
    /\ driverInvoked = FALSE
    /\ exitStatus = -1
    /\ error = ""

\* parse_null(parameters)
ParseNullCall ==
    /\ pc = "sanitize"
    /\ parsed' = parse_null(parameters.par)
    /\ parameters' = [parameters EXCEPT !.par = ArgumentAfter(parameters.par)]
    /\ pc' = "sanitized"
    /\ UNCHANGED <<op, registry, idx, checked, prompts, exitStatus, error,
                   paths>>
    /\ UNCHANGED sanitizeVars
    /\ UNCHANGED <<envVars, argVars, submitVars, effectVars>>

\* parse_null(parse_null(parameters)), when the first call returned
ParseNullAgain ==
    /\ pc = "sanitized"
    /\ parsed.raised = ""
    /\ reparsed' = parse_null(parsed.value)
    /\ pc' = "sanitized twice"
    /\ UNCHANGED <<op, registry, idx, checked, prompts, exitStatus, error,
                   given>>
    /\ UNCHANGED <<envVars, argVars, setupVars, submitVars, effectVars>>

NextSanitize ==
    \/ ParseNullCall
    \/ ParseNullAgain

SpecSanitize == InitSanitize /\ [][NextSanitize]_vars

-----------------------------------------------------------------------------
(* Properties *)

RegistryEmpty == \A role \in Roles : registry[role] = NotSet

NoModuleWork == ~mkdirDone /\ ~configCalled /\ ~driverInvoked

\* roles whose record is missing from the output directory
MissingRoles == {role \in Roles : ckpt[role].state = "missing"}

\* C1: when resume or debug fails on the one missing checkpoint record, no
\* registry slot holds an instance loaded from a checkpoint.
C1_NoPartialPopulation ==
    (/\ op \in {"resume", "debug"}
     /\ pc = "done"
     /\ error = "CheckpointMissing"
     /\ Cardinality(MissingRoles) = 1)
        => \A role \in Roles : registry[role].src # "checkpoint"

\* the last checkpoint round the previous run saved for every role
LastCompleteRound == IF wIdx = Len(names) THEN wRound ELSE wRound - 1

\* C2: after the previous run ended between two saves of a round, a resume
\* that has loaded every role holds, for every role, the state of the last
\* fully completed round, never states of two rounds.
C2_NoMixedRounds ==
    (/\ op = "resume"
     /\ pc \in {"check", "resume_driver"}
     /\ damaged = 0)
        => \A role \in Roles :
              /\ registry[role].src = "checkpoint"
              /\ registry[role].round = LastCompleteRound

\* a configured path that is not OUTPUT or SCRATCH, is not empty and is not
\* on disk
RequiredPathAbsent ==
    \E key \in DOMAIN paths \ {"OUTPUT", "SCRATCH"} :
        /\ paths[key] # <<>>
        /\ ~PathExists(paths[key], disk, existing)

\* C3: when submit's existence check meets a required path that is not on
\* disk, the process has ended without making the workdir, without calling
\* config() and without invoking the driver.
C3_AbortBeforeMkdir ==
    (op = "submit" /\ pathsChecked /\ RequiredPathAbsent)
        => (pc = "done" /\ NoModuleWork)

C3_Witness ==
    /\ op = "submit"
    /\ pathsChecked
    /\ RequiredPathAbsent
    /\ pc = "done"
    /\ Len(missingPaths) = 2

\* C4: when the latest prompt was answered with anything but "y", the process
\* has ended, no registry slot is set, nothing was made, constructed or
\* invoked, and if no prompt was confirmed the run directory is as it was.
C4_DeclineAborts ==
    (prompts # <<>> /\ prompts[Len(prompts)].answer # "y")
        => /\ pc = "done"
           /\ RegistryEmpty
           /\ NoModuleWork
           /\ (\A i \in 1..Len(prompts) : prompts[i].answer # "y") => disk = disk0

\* C5: when submit, resume, debug or restart is started without its parameter
\* file, no prompt is shown, the run directory is untouched and no registry
\* slot is set, and the process ends with FileNotFoundError.
C5_MissingParameterFileFirst ==
    (/\ run \in {"submit", "resume", "debug", "restart"}
     /\ pc # "idle"
     /\ paramFile \notin disk0)
        => /\ prompts = <<>>
           /\ disk = disk0
           /\ RegistryEmpty
           /\ pc = "done" => error = "FileNotFoundError"

\* C6: when setup ends on a missing key of the parameter file, neither
\* seisflows_parameters nor seisflows_paths has been set.
C6_KeyErrorBeforeRegistration ==
    (pc = "done" /\ error = "KeyError" /\ ~configCalled)
        => /\ registry["parameters"] = NotSet
           /\ registry["paths"] = NotSet

\* C7: a process ended by a fatal condition (missing parameter file, missing
\* required path in submit, missing or corrupt checkpoint, module validation
\* failure) has a non-zero exit status.
C7_FatalExitsNonZero ==
    (/\ pc = "done"
     /\ \/ error \in {"FileNotFoundError", "CheckpointMissing",
                      "CheckpointCorrupt", "ModuleValidationError"}
        \/ missingPaths # <<>>)
        => exitStatus # 0

\* C8: when setup has resolved the paths, an entry configured as the empty
\* string is still the empty string and every other entry is absolute.
C8_EmptyPathStaysEmpty ==
    pc = "setup_return"
        => \A key \in DOMAIN paths :
              IF parameters.PATHS[key] = <<>>
              THEN paths[key] = <<>>
              ELSE IsAbsolute(paths[key])

\* C9: after a confirmed clean the output directory, the log file and the
\* scratch directory are gone and the parameter file, if it was there, is
\* still there.
C9_CleanKeepsParameterFile ==
    (/\ run = "clean"
     /\ pc = "done"
     /\ prompts = <<[prompt |-> "clean", answer |-> "y"]>>)
        => /\ disk \cap {OUTPUT_DIR, MYLOG_TXT, SCRATCH_DIR} = {}
           /\ paramFile \in disk0 => paramFile \in disk

\* C10: parse_null returns a mapping that holds exactly the entries of its
\* input whose value is neither None nor "", each with its value unchanged
\* unless its key is LINESEARCH.
C10_ExactlyNonNull ==
    pc = "sanitized"
        => /\ parsed.raised = ""
           /\ DOMAIN parsed.value =
                 {key \in DOMAIN parameters.par :
                     parameters.par[key] \notin {PyNone, PyStr(<<>>)}}
           /\ \A key \in DOMAIN parsed.value \ {"LINESEARCH"} :
                 parsed.value[key] = parameters.par[key]

\* C11: parse_null returns a mapping for every input mapping; it never ends
\* with an exception.
C11_NeverRaises ==
    pc = "sanitized" => parsed.raised = ""

\* C12: when parse_null returned a mapping, parse_null of that mapping
\* returns the same mapping.
C12_Idempotent ==
    pc = "sanitized twice" => reparsed = parsed

C12_Witness ==
    /\ pc = "sanitized twice"
    /\ "LINESEARCH" \in DOMAIN parsed.value
    /\ parsed.value["LINESEARCH"] # given["LINESEARCH"]
    /\ DOMAIN parsed.value # DOMAIN given

\* C13: after parse_null the mapping it was handed has the keys and values
\* it had before the call.
C13_ArgumentNotMutated ==
    pc = "sanitized" => parameters.par = given

C13_Witness ==
    /\ pc = "sanitized"
    /\ parsed.raised = ""
    /\ DOMAIN parsed.value # DOMAIN given
    /\ "LINESEARCH" \in DOMAIN parsed.value
    /\ parsed.value["LINESEARCH"] # given["LINESEARCH"]
    /\ parameters.par = given

\* C14: when LINESEARCH is a non-empty string, parse_null returns a mapping
\* in which LINESEARCH is that string with its first character upper-cased
\* and the others lower-cased ("backtrack" gives "Backtrack"), and every other
\* key it returns has the value it had.
C14_LinesearchCapitalized ==
    (/\ pc = "sanitized"
     /\ "LINESEARCH" \in DOMAIN given
     /\ given["LINESEARCH"].t = "str"
     /\ given["LINESEARCH"].s # <<>>)
        => /\ parsed.raised = ""
           /\ "LINESEARCH" \in DOMAIN parsed.value
           /\ LET before == given["LINESEARCH"].s
                  after == parsed.value["LINESEARCH"].s
              IN /\ parsed.value["LINESEARCH"].t = "str"
                 /\ Len(after) = Len(before)
                 /\ after[1] = UpperChar(before[1])
                 /\ \A i \in 2..Len(before) : after[i] = LowerChar(before[i])
                 /\ before = BACKTRACK =>
                       after = <<"B", "a", "c", "k", "t", "r", "a", "c", "k">>
           /\ \A key \in DOMAIN parsed.value \ {"LINESEARCH"} :
                 parsed.value[key] = given[key]

C14_Witness ==
    /\ pc = "sanitized"
    /\ "LINESEARCH" \in DOMAIN given
    /\ given["LINESEARCH"] = PyStr(BACKTRACK)
    /\ parsed.value["LINESEARCH"] =
          PyStr(<<"B", "a", "c", "k", "t", "r", "a", "c", "k">>)
    /\ "NTASK" \in DOMAIN parsed.value

\* C15: in resume the driver is invoked only when check() has been called on
\* every role of names and has returned on each; when a check() fails the
\* process has ended and the driver is not invoked.
C15_DriverAfterAllChecks ==
    op = "resume"
        => /\ (pc = "resume_driver" \/ driverInvoked) => checked = Roles
           /\ error = "ModuleValidationError" => (pc = "done" /\ ~driverInvoked)

C15_Witness ==
    /\ op = "resume"
    /\ driverInvoked
    /\ checked = Roles

\* C16: when submit or resume is about to invoke the driver, or has invoked
\* it, every enumerated role has an instance set in the registry.
C16_RegistryFullAtDriver ==
    (pc \in {"submit_driver", "resume_driver"} \/ driverInvoked)
        => \A role \in Roles : registry[role] # NotSet

C16_Witness ==
    /\ op = "submit"
    /\ driverInvoked
    /\ registry["parameters"] = FromFile("parameters")
    /\ registry["paths"] = FromFile("paths")
    /\ \A role \in ModuleRoles : registry[role] = FromConfig(role)

AllLoaded == \A role \in Roles : registry[role] = FromCheckpoint(ckpt[role])

\* C18: debug never shows the pre-flight prompt and never invokes the driver;
\* it calls check() only when every role is loaded, and it enters the shell
\* only when check() has returned on every role.
C18_DebugNoPromptNoDriver ==
    op = "debug"
        => /\ prompts = <<>>
           /\ ~driverInvoked
           /\ pc # "resume_driver"
           /\ (pc = "check" \/ checked # {}) => AllLoaded
           /\ pc \in {"debug_shell", "shell"} => (AllLoaded /\ checked = Roles)

C18_Witness ==
    /\ op = "debug"
    /\ pc = "shell"
    /\ AllLoaded
    /\ checked = Roles

\* the resolved paths that are not exempted, not empty and not on disk
AbsentRequiredPaths ==
    {paths[key] : key \in {k \in DOMAIN paths \ {"OUTPUT", "SCRATCH"} :
                              /\ paths[k] # <<>>
                              /\ ~PathExists(paths[k], disk, existing)}}

\* C19: submit's existence check ends the process exactly when some path that
\* is not OUTPUT or SCRATCH and is not empty is not on disk, and the list it
\* reports holds exactly those paths.
C19_AbortIffRequiredAbsent ==
    (op = "submit" /\ pathsChecked)
        => /\ error = "sys.exit()" <=> AbsentRequiredPaths # {}
           /\ {missingPaths[i] : i \in 1..Len(missingPaths)} = AbsentRequiredPaths
           /\ Len(missingPaths) = Cardinality(AbsentRequiredPaths)

C19_Witness ==
    /\ op = "submit"
    /\ pathsChecked
    /\ pc = "submit_mkdir"
    /\ ~PathExists(paths["OUTPUT"], disk, existing)
    /\ ~PathExists(paths["SCRATCH"], disk, existing)
    /\ existing # {}

\* C20: when the positional argument is `check` or is omitted, main returns
\* without a prompt, without a change of the run directory, without setting a
\* registry slot and without invoking the driver.
C20_CheckAndNoneDoNothing ==
    (run \in {"check", ""} /\ pc # "idle")
        => /\ pc \in {"main", "done"}
           /\ prompts = <<>>
           /\ disk = disk0
           /\ RegistryEmpty
           /\ NoModuleWork
           /\ pc = "done" => (exitStatus = 0 /\ error = "")

C20_Witness ==
    /\ run = "check"
    /\ pc = "done"
    /\ exitStatus = 0
    /\ disk = disk0
    /\ disk # {}

=============================================================================
